---- MODULE Spec2Model ----
(***************************************************************************)
(* Model of the MRS.i18n `translate` service (src/src/translate.js).       *)
(*                                                                         *)
(* JavaScript runs every handler to completion on one thread, so each      *)
(* public method, each loader response and each $timeout callback is one   *)
(* action.  A handler is written as an operator on a record of the         *)
(* service's state, statement after statement, and the action installs     *)
(* the record the handler ends with.                                       *)
(*                                                                         *)
(* JavaScript values are tagged records; strings are sequences of          *)
(* one-character strings so that split(".") is computed, not assumed.      *)
(***************************************************************************)
EXTENDS Integers, Sequences, FiniteSets, TLC

\* Number of setDefaultLanguage / setLanguage calls explored, in the
\* specification of configuration and in the specification of lookup.
MaxCalls == 3
MaxLookupCalls == 2

\* Number of substitution arguments passed to getTerm.
MaxArgs == 2

\* Number of setDefaultLanguage / setLanguage calls explored under fairness.
MaxLiveCalls == 3

-----------------------------------------------------------------------------
(* JavaScript values                                                       *)

Undefined == [kind |-> "undefined"]
Null == [kind |-> "null"]
Str(chars) == [kind |-> "string", chars |-> chars]
Obj(props) == [kind |-> "object", props |-> props]

\* ToBoolean: undefined, null and "" are falsy, objects and other strings truthy.
Truthy(v) ==
    \/ v.kind = "object"
    \/ v.kind = "string" /\ v.chars # <<>>

\* A language argument or variable: a language code, or undefined.
NoLanguage == "undefined"
Langs == {"A", "B", "C"}
LangTruthy(language) == language # NoLanguage

\* obj[name] for the property names used here (letters and the empty name):
\* an own property of an object, undefined on a string.
GetProp(obj, name) ==
    IF obj.kind = "object" /\ name \in DOMAIN obj.props
    THEN obj.props[name]
    ELSE Undefined

\* desc.split("."): the segments between the dots; "" gives [""].
RECURSIVE SplitFrom(_, _)
SplitFrom(chars, cur) ==
    IF chars = <<>> THEN <<cur>>
    ELSE IF Head(chars) = "." THEN <<cur>> \o SplitFrom(Tail(chars), <<>>)
    ELSE SplitFrom(Tail(chars), Append(cur, Head(chars)))

Split(chars) == SplitFrom(chars, <<>>)

\* while (arr.length && (obj = obj[arr.shift()])); return obj;
RECURSIVE Descend(_, _)
Descend(obj, arr) ==
    IF arr = <<>> THEN obj
    ELSE LET next == GetProp(obj, Head(arr))
         IN IF Truthy(next) THEN Descend(next, Tail(arr)) ELSE next

\* A lookup that takes the whole key as one property name.
getDescendantPropWhole(obj, desc) == GetProp(obj, desc.chars)

getDescendantProp(obj, desc) == Descend(obj, Split(desc.chars))

-----------------------------------------------------------------------------
(* Inputs                                                                  *)

NameU == <<"u">>
NameN == <<"n">>
NameG == <<"g">>

\* The resource files: {"u": {"n": "N"}, "n": "M", "g": "{0}{1}{0}"},
\* {"u": {"n": ""}} and {}.
TreeFull ==
    Obj((NameU :> Obj((NameN :> Str(<<"N">>))))
        @@ (NameN :> Str(<<"M">>))
        @@ (NameG :> Str(<<"{", "0", "}", "{", "1", "}", "{", "0", "}">>)))
TreeBlank == Obj((NameU :> Obj((NameN :> Str(<<>>)))))
TreeEmpty == Obj(<<>>)

\* The content readJSONFile delivers for resources.<language>.json.
File(language) ==
    CASE language = "A" -> TreeFull
      [] language = "B" -> TreeBlank
      [] OTHER -> TreeEmpty

\* The term argument of getTerm: a dotted key, "", or absent.
Terms == { Undefined,
           Str(<<>>),
           Str(<<"u">>),
           Str(<<"n">>),
           Str(<<"u", ".", "n">>),
           Str(<<"n", ".", "u">>),
           Str(<<"u", ".">>) }

\* The arguments of getTerm after term and language: a plain text, a text
\* that is itself a token, and a text holding a replacement pattern.
ArgValues == { <<"x">>, <<"{", "1", "}">>, <<"$", "&">> }

\* arguments[2], arguments[3], ...: none, or up to MaxArgs of them
ArgLists == UNION { [1..n -> ArgValues] : n \in 0..MaxArgs }

\* The terms getTerm is called with when it is given such arguments: a leaf
\* with tokens, a leaf without, an interior node and a key of no tree.
SubstituteTerms == { Str(NameG), Str(NameN), Str(NameU), Str(<<"z">>) }

\* The language argument of getTerm: a code or absent.
Overrides == Langs \cup {NoLanguage}

\* How window.tlantic.system.readJSONFile answers a request: from a later
\* turn, or from inside the call, with success or failure.
Responses == {"later", "success", "failure"}

basePath == <<>>

-----------------------------------------------------------------------------
(* State                                                                   *)

VARIABLES
    resources,          \* language -> loaded tree, Undefined when absent
    defaultLanguage,
    selectedLanguage,
    loads,              \* requests readJSONFile has not answered yet
    timeouts,           \* queue of callbacks deferred with $timeout
    calls,              \* number of setDefaultLanguage / setLanguage calls so far
    invoked,            \* call id -> number of times its callback has run
    failed,             \* ids of the calls whose load reported failure
    lastOp,             \* the handler that ran in the last turn
    translation,        \* what getTerm returned (TypeError: it threw), if it ran in the last turn
    tried,              \* languages whose tree getTerm consulted during the last turn
    log,                \* $log entries written during the last turn
    issued              \* readJSONFile requests made during the last turn

vars == <<resources, defaultLanguage, selectedLanguage, loads, timeouts, calls,
          invoked, failed, lastOp, translation, tried, log, issued>>

\* The service's state at the start of a turn.
Service ==
    [resources |-> resources,
     defaultLanguage |-> defaultLanguage,
     selectedLanguage |-> selectedLanguage,
     loads |-> loads,
     timeouts |-> timeouts,
     invoked |-> invoked,
     failed |-> failed,
     translation |-> Null,
     tried |-> <<>>,
     log |-> <<>>,
     issued |-> <<>>]

\* resources[language]
Resource(res, language) ==
    IF language \in DOMAIN res THEN res[language] ELSE Undefined

\* delete resources[language]
Delete(res, language) ==
    [l \in DOMAIN res |-> IF l = language THEN Undefined ELSE res[l]]

\* The languages that have a tree in the store.
Loaded(res) == {l \in DOMAIN res : res[l] # Undefined}

-----------------------------------------------------------------------------
(* loadResources                                                           *)

\* self.basePath + 'resources.' + language + '.json'
ResourceFile(language) == basePath \o <<"resources.", language, ".json">>

\* A $timeout that drops the callbacks still queued.
TimeoutReplaces(s, id, language) ==
    [s EXCEPT !.timeouts = <<[id |-> id, language |-> language]>>]

\* $timeout(function () { callback(); })
Timeout(s, id, language) ==
    [s EXCEPT !.timeouts = Append(@, [id |-> id, language |-> language])]

\* A success callback that runs callback() itself instead of deferring it.
OnLoadedRunsCallback(s, req, result) ==
    LET s1 == [s EXCEPT !.resources = [@ EXCEPT ![req.language] = result]]
    IN IF req.callback THEN [s1 EXCEPT !.invoked[req.id] = @ + 1] ELSE s1

\* readJSONFile's success callback (lines 78-85)
OnLoaded(s, req, result) ==
    LET s1 == [s EXCEPT !.resources = [@ EXCEPT ![req.language] = result]]
    IN IF req.callback THEN Timeout(s1, req.id, req.language) ELSE s1

\* A failure callback that also runs the caller's callback.
loadResourcesCallbackCompletes(s, req) ==
    LET s1 == [s EXCEPT !.log = Append(@, [level |-> "error",
                                           message |-> <<"File [", req.resourceFile, "] was not found.">>]),
                        !.failed = @ \cup {req.id}]
    IN IF req.callback THEN Timeout(s1, req.id, req.language) ELSE s1

\* readJSONFile's failure callback (lines 86-88)
loadResourcesCallback(s, req) ==
    [s EXCEPT !.log = Append(@, [level |-> "error",
                                 message |-> <<"File [", req.resourceFile, "] was not found.">>]),
              !.failed = @ \cup {req.id}]

\* The request as readJSONFile receives it, with the state the service is in
\* at that moment.
Request(s, req) ==
    [language |-> req.language,
     resourceFile |-> req.resourceFile,
     defaultLanguage |-> s.defaultLanguage,
     selectedLanguage |-> s.selectedLanguage,
     loaded |-> Loaded(s.resources)]

translateLoadResources(s, language, callback, id, response) ==
    LET req == [id |-> id, language |-> language, callback |-> callback,
                resourceFile |-> ResourceFile(language)]
        s1 == [s EXCEPT !.issued = Append(@, Request(s, req))]
    IN CASE response = "later" -> [s1 EXCEPT !.loads = @ \cup {req}]
         [] response = "success" -> OnLoaded(s1, req, File(language))
         [] response = "failure" -> loadResourcesCallback(s1, req)

-----------------------------------------------------------------------------
(* setDefaultLanguage, setLanguage                                         *)

\* A setDefaultLanguage that leaves the selection alone.
translateSetDefaultLanguageOnly(s, language, callback, id, response) ==
    LET s1 == [s EXCEPT !.defaultLanguage = language]
    IN translateLoadResources(s1, language, callback, id, response)

translateSetDefaultLanguage(s, language, callback, id, response) ==
    LET s1 == [s EXCEPT !.defaultLanguage = language]
        s2 == [s1 EXCEPT !.selectedLanguage = language]
    IN translateLoadResources(s2, language, callback, id, response)

\* The condition of line 118 without its test of the default against the selection.
UnloadsForTarget(s, language) ==
    /\ s.defaultLanguage # language
    /\ s.selectedLanguage # language

\* The condition of line 118 without its test of the default against the target.
UnloadsForDefault(s, language) ==
    /\ s.defaultLanguage # s.selectedLanguage
    /\ s.selectedLanguage # language

\* The condition of line 118 without its test of the selection against the target.
UnloadsForSelection(s, language) ==
    /\ s.defaultLanguage # s.selectedLanguage
    /\ s.defaultLanguage # language

\* the condition of line 118
Unloads(s, language) ==
    /\ s.defaultLanguage # s.selectedLanguage
    /\ s.defaultLanguage # language
    /\ s.selectedLanguage # language

\* the condition of line 122
Switches(s, language) ==
    /\ s.defaultLanguage # language
    /\ s.selectedLanguage # language

translateSetLanguage(s, language, callback, id, response) ==
    LET s1 == IF Unloads(s, language)
              THEN [s EXCEPT !.resources = Delete(@, s.selectedLanguage)]
              ELSE s
    IN IF Switches(s1, language)
       THEN translateLoadResources([s1 EXCEPT !.selectedLanguage = language],
                                   language, callback, id, response)
       ELSE IF callback THEN Timeout(s1, id, language) ELSE s1

-----------------------------------------------------------------------------
(* getTerm                                                                 *)

\* 'Translation not found for language [' + language + '] and term [' + term + '].'
NotFound(language, term) ==
    [level |-> "warn",
     message |-> <<"Translation not found for language [", language,
                   "] and term [", term.chars, "].">>]

\* resources[language] && (translation = getDescendantProp(resources[language], term)):
\* the value translation holds afterwards
Lookup(s, language, term, translation0) ==
    IF Truthy(Resource(s.resources, language))
    THEN getDescendantProp(Resource(s.resources, language), term)
    ELSE translation0

\* A test that is content with a loaded tree.
FoundTree(s, language, term) ==
    Truthy(Resource(s.resources, language))

\* the value of that condition
Found(s, language, term) ==
    /\ Truthy(Resource(s.resources, language))
    /\ Truthy(getDescendantProp(Resource(s.resources, language), term))

\* The condition of line 191 with || for &&.
WarnsRequestedEither(s, language) ==
    \/ s.selectedLanguage # language
    \/ s.defaultLanguage # language

\* the condition of line 191
WarnsRequested(s, language) ==
    /\ s.selectedLanguage # language
    /\ s.defaultLanguage # language

\* The completion of a call that threw a TypeError instead of returning.
TypeError == [kind |-> "TypeError"]

Digits == <<"0", "1", "2", "3", "4", "5", "6", "7", "8", "9">>

\* '' + count
RECURSIVE NumberToString(_)
NumberToString(n) ==
    IF n < 10 THEN <<Digits[n + 1]>>
    ELSE NumberToString(n \div 10) \o <<Digits[(n % 10) + 1]>>

\* '{' + count + '}'
Token(count) == <<"{">> \o NumberToString(count) \o <<"}">>

\* str.indexOf(pattern) + 1: the first position pattern occurs at, 0 if none.
IndexOf(str, pattern) ==
    LET at == {i \in 1..(Len(str) - Len(pattern) + 1) :
                  SubSeq(str, i, i + Len(pattern) - 1) = pattern}
    IN IF at = {} THEN 0 ELSE CHOOSE i \in at : \A j \in at : i <= j

\* The replacement text String.prototype.replace inserts for a string
\* pattern: $$ is $, $& the match, $` the text before it, $' the text after
\* it; every other character, a $ before a digit included, stands for itself.
RECURSIVE GetSubstitution(_, _, _, _)
GetSubstitution(replacement, matched, before, after) ==
    IF replacement = <<>> THEN <<>>
    ELSE IF Head(replacement) = "$" /\ Len(replacement) >= 2
         THEN LET c == replacement[2]
                  rest == SubSeq(replacement, 3, Len(replacement))
              IN CASE c = "$" -> <<"$">> \o GetSubstitution(rest, matched, before, after)
                   [] c = "&" -> matched \o GetSubstitution(rest, matched, before, after)
                   [] c = "`" -> before \o GetSubstitution(rest, matched, before, after)
                   [] c = "'" -> after \o GetSubstitution(rest, matched, before, after)
                   [] OTHER -> <<"$">> \o GetSubstitution(Tail(replacement), matched, before, after)
         ELSE <<Head(replacement)>> \o GetSubstitution(Tail(replacement), matched, before, after)

\* str.replace(pattern, replacement) for a string pattern: the first
\* occurrence only.
StringReplace(str, pattern, replacement) ==
    LET position == IndexOf(str, pattern)
        before == SubSeq(str, 1, position - 1)
        after == SubSeq(str, position + Len(pattern), Len(str))
    IN IF position = 0 THEN str
       ELSE before \o GetSubstitution(replacement, pattern, before, after) \o after

\* for (i = 2; i < arguments.length; i += 1) { translation = translation.replace(...); count += 1; }
\* with args the arguments from index 2 on
RECURSIVE Substitute(_, _, _)
Substitute(chars, args, count) ==
    IF args = <<>> THEN chars
    ELSE Substitute(StringReplace(chars, Token(count), Head(args)), Tail(args), count + 1)

\* lines 207-212: an object has no replace method
Substituted(translation0, args) ==
    IF Truthy(translation0) /\ Len(args) > 0
    THEN IF translation0.kind = "string"
         THEN Str(Substitute(translation0.chars, args, 0))
         ELSE TypeError
    ELSE translation0

\* A lookup that makes the language argument the selected language.
ResolvedSelects(s0, term, language0) ==
    LET s == [s0 EXCEPT !.selectedLanguage = IF LangTruthy(language0) THEN language0 ELSE @]
        language1 == IF ~LangTruthy(language0) THEN s.selectedLanguage ELSE language0
    IN IF ~LangTruthy(language1)
       THEN [s EXCEPT !.log = Append(@, [level |-> "error",
                 message |-> <<"There must be a default language defined for the application.">>])]
       ELSE
         LET s1 == [s EXCEPT !.tried = Append(@, language1),
                             !.translation = Lookup(s, language1, term, @)]
         IN IF Found(s1, language1, term)
            THEN s1
            ELSE
              LET s2 == IF WarnsRequested(s1, language1)
                        THEN [s1 EXCEPT !.log = Append(@, NotFound(language1, term))]
                        ELSE s1
                  language2 == s2.defaultLanguage
                  s3 == [s2 EXCEPT !.tried = Append(@, language2),
                                   !.translation = Lookup(s2, language2, term, @)]
              IN IF Found(s3, language2, term)
                 THEN s3
                 ELSE [s3 EXCEPT !.log = Append(@, NotFound(language2, term))]

\* lines 177-205: the lookup with its fallback
Resolved(s, term, language0) ==
    LET language1 == IF ~LangTruthy(language0) THEN s.selectedLanguage ELSE language0
    IN IF ~LangTruthy(language1)
       THEN [s EXCEPT !.log = Append(@, [level |-> "error",
                 message |-> <<"There must be a default language defined for the application.">>])]
       ELSE
         LET s1 == [s EXCEPT !.tried = Append(@, language1),
                             !.translation = Lookup(s, language1, term, @)]
         IN IF Found(s1, language1, term)
            THEN s1
            ELSE
              LET s2 == IF WarnsRequested(s1, language1)
                        THEN [s1 EXCEPT !.log = Append(@, NotFound(language1, term))]
                        ELSE s1
                  language2 == s2.defaultLanguage
                  s3 == [s2 EXCEPT !.tried = Append(@, language2),
                                   !.translation = Lookup(s2, language2, term, @)]
              IN IF Found(s3, language2, term)
                 THEN s3
                 ELSE [s3 EXCEPT !.log = Append(@, NotFound(language2, term))]

\* A getTerm that takes only an absent term as missing, "" as a key.
translateGetTermAbsentOnly(s, term, language0, args) ==
    IF term # Undefined
    THEN LET s1 == Resolved(s, term, language0)
         IN [s1 EXCEPT !.translation = Substituted(@, args)]
    ELSE [s EXCEPT !.log = Append(@, [level |-> "warn", message |-> <<"Term is required.">>])]

\* getTerm(term, language0, args[1], args[2], ...)
translateGetTerm(s, term, language0, args) ==
    IF Truthy(term)
    THEN LET s1 == Resolved(s, term, language0)
         IN [s1 EXCEPT !.translation = Substituted(@, args)]
    ELSE [s EXCEPT !.log = Append(@, [level |-> "warn", message |-> <<"Term is required.">>])]

-----------------------------------------------------------------------------
(* Actions                                                                 *)

Op(name, id, language, callback, term, args) ==
    [name |-> name, id |-> id, language |-> language, callback |-> callback, term |-> term,
     args |-> args]

Init ==
    /\ resources = [l \in Langs |-> Undefined]
    /\ defaultLanguage = NoLanguage
    /\ selectedLanguage = NoLanguage
    /\ loads = {}
    /\ timeouts = <<>>
    /\ calls = 0
    /\ invoked = <<>>
    /\ failed = {}
    /\ lastOp = Op("init", 0, NoLanguage, FALSE, Undefined, <<>>)
    /\ translation = Null
    /\ tried = <<>>
    /\ log = <<>>
    /\ issued = <<>>

\* Install the state a handler ended with.
Becomes(s) ==
    /\ resources' = s.resources
    /\ defaultLanguage' = s.defaultLanguage
    /\ selectedLanguage' = s.selectedLanguage
    /\ loads' = s.loads
    /\ timeouts' = s.timeouts
    /\ invoked' = s.invoked
    /\ failed' = s.failed
    /\ translation' = s.translation
    /\ tried' = s.tried
    /\ log' = s.log
    /\ issued' = s.issued

\* A call of setDefaultLanguage or setLanguage gets the next id; its callback
\* has not run yet.
Called == [Service EXCEPT !.invoked = Append(@, 0)]

SetDefaultLanguage(language, callback, response) ==
    /\ Becomes(translateSetDefaultLanguage(Called, language, callback, calls + 1, response))
    /\ lastOp' = Op("setDefaultLanguage", calls + 1, language, callback, Undefined, <<>>)
    /\ calls' = calls + 1

SetLanguage(language, callback, response) ==
    /\ Becomes(translateSetLanguage(Called, language, callback, calls + 1, response))
    /\ lastOp' = Op("setLanguage", calls + 1, language, callback, Undefined, <<>>)
    /\ calls' = calls + 1

GetTerm(term, language, args) ==
    /\ Becomes(translateGetTerm(Service, term, language, args))
    /\ lastOp' = Op("getTerm", 0, language, FALSE, term, args)
    /\ UNCHANGED calls

\* readJSONFile answers an outstanding request with the file's content.
LoadSucceeds ==
    \E req \in loads :
        /\ Becomes(OnLoaded([Service EXCEPT !.loads = @ \ {req}], req, File(req.language)))
        /\ lastOp' = Op("loaded", req.id, req.language, req.callback, Undefined, <<>>)
        /\ UNCHANGED calls

\* readJSONFile answers an outstanding request with failure.
LoadFails ==
    \E req \in loads :
        /\ Becomes(loadResourcesCallback([Service EXCEPT !.loads = @ \ {req}], req))
        /\ lastOp' = Op("loadFailed", req.id, req.language, req.callback, Undefined, <<>>)
        /\ UNCHANGED calls

\* The $timeout queue runs its oldest entry: callback().
TimeoutFires ==
    /\ timeouts # <<>>
    /\ LET t == Head(timeouts)
       IN /\ invoked' = [invoked EXCEPT ![t.id] = @ + 1]
          /\ lastOp' = Op("callback", t.id, t.language, TRUE, Undefined, <<>>)
    /\ timeouts' = Tail(timeouts)
    /\ log' = <<>>
    /\ issued' = <<>>
    /\ translation' = Null
    /\ tried' = <<>>
    /\ UNCHANGED <<resources, defaultLanguage, selectedLanguage, loads, calls, failed>>

-----------------------------------------------------------------------------
(* Specification of configuration and loading: every call passes a         *)
(* callback, the loader answers in every way, getTerm is called for one    *)
(* key.                                                                    *)

CallSetDefaultLanguage ==
    /\ calls < MaxCalls
    /\ \E language \in Langs, response \in Responses :
        SetDefaultLanguage(language, TRUE, response)

CallSetLanguage ==
    /\ calls < MaxCalls
    /\ \E language \in Langs, response \in Responses :
        SetLanguage(language, TRUE, response)

CallGetTerm ==
    \E language \in {NoLanguage, "B"} : GetTerm(Str(<<"u", ".", "n">>), language, <<>>)

Next ==
    \/ CallSetDefaultLanguage
    \/ CallSetLanguage
    \/ CallGetTerm
    \/ LoadSucceeds
    \/ LoadFails
    \/ TimeoutFires

Spec == Init /\ [][Next]_vars

-----------------------------------------------------------------------------
(* Specification of term lookup: getTerm is called with every term and     *)
(* every language argument, in the states a few calls without callback     *)
(* lead to.                                                                *)

LookupSetDefaultLanguage ==
    /\ calls < MaxLookupCalls
    /\ \E language \in Langs, response \in Responses :
        SetDefaultLanguage(language, FALSE, response)

LookupSetLanguage ==
    /\ calls < MaxLookupCalls
    /\ \E language \in Langs, response \in Responses :
        SetLanguage(language, FALSE, response)

LookupGetTerm ==
    \E term \in Terms, language \in Overrides : GetTerm(term, language, <<>>)

NextLookup ==
    \/ LookupSetDefaultLanguage
    \/ LookupSetLanguage
    \/ LookupGetTerm
    \/ LoadSucceeds
    \/ LoadFails

SpecLookup == Init /\ [][NextLookup]_vars

-----------------------------------------------------------------------------
(* Specification of placeholder substitution: getTerm is called with       *)
(* substitution arguments, in the states of the specification of lookup.   *)

SubstituteGetTerm ==
    \E term \in SubstituteTerms, language \in {NoLanguage, "A"}, args \in ArgLists :
        GetTerm(term, language, args)

NextSubstitute ==
    \/ LookupSetDefaultLanguage
    \/ LookupSetLanguage
    \/ SubstituteGetTerm
    \/ LoadSucceeds
    \/ LoadFails

SpecSubstitute == Init /\ [][NextSubstitute]_vars

-----------------------------------------------------------------------------
(* Specification of the eviction scenario: setDefaultLanguage(A),          *)
(* setLanguage(B), setLanguage(C) for distinct A, B, C, every load         *)
(* succeeding, in every interleaving with the responses of the loader.     *)

ScenarioSetDefaultLanguage ==
    /\ calls = 0
    /\ \E language \in Langs, response \in {"later", "success"} :
        SetDefaultLanguage(language, TRUE, response)

ScenarioSetLanguage ==
    /\ calls \in {1, 2}
    /\ \E language \in Langs \ {defaultLanguage, selectedLanguage},
          response \in {"later", "success"} :
        SetLanguage(language, TRUE, response)

NextScenario ==
    \/ ScenarioSetDefaultLanguage
    \/ ScenarioSetLanguage
    \/ LoadSucceeds
    \/ TimeoutFires

SpecScenario == Init /\ [][NextScenario]_vars

-----------------------------------------------------------------------------
(* Specification of callback delivery: every call passes a callback and    *)
(* readJSONFile answers every request with success, once.  The loader      *)
(* answers each request and $timeout runs each queued function, hence the  *)
(* weak fairness of LoadSucceeds and TimeoutFires; nothing obliges the     *)
(* application to make a call.                                             *)

LiveSetDefaultLanguage ==
    /\ calls < MaxLiveCalls
    /\ \E language \in Langs, response \in {"later", "success"} :
        SetDefaultLanguage(language, TRUE, response)

LiveSetLanguage ==
    /\ calls < MaxLiveCalls
    /\ \E language \in Langs, response \in {"later", "success"} :
        SetLanguage(language, TRUE, response)

NextLive ==
    \/ LiveSetDefaultLanguage
    \/ LiveSetLanguage
    \/ LoadSucceeds
    \/ TimeoutFires

SpecLive ==
    /\ Init
    /\ [][NextLive]_vars
    /\ WF_vars(LoadSucceeds)
    /\ WF_vars(TimeoutFires)

-----------------------------------------------------------------------------
(* Properties                                                              *)

\* The value at the end of a path of property names, Undefined when a
\* segment is missing: what the key addresses in a tree, whatever its value.
RECURSIVE PathValue(_, _)
PathValue(obj, arr) ==
    IF arr = <<>> THEN obj
    ELSE IF obj.kind = "object" /\ Head(arr) \in DOMAIN obj.props
         THEN PathValue(obj.props[Head(arr)], Tail(arr))
         ELSE Undefined

\* What a key addresses in the tree of a language; Undefined when the tree
\* is not loaded or the key is absent from it.
Addressed(language, term) ==
    IF language \in Loaded(resources)
    THEN PathValue(resources[language], Split(term.chars))
    ELSE Undefined

IsCall(op) == op.name \in {"setDefaultLanguage", "setLanguage"}

\* C1: after setDefaultLanguage(A), setLanguage(B), setLanguage(C) with
\* distinct A, B, C and every load answered with success, the store holds
\* the trees of A (the default) and C (the selection) and no tree of B.
C1_EvictionScenario ==
    (calls = 3 /\ loads = {}) =>
        Loaded(resources) = {defaultLanguage, selectedLanguage}

\* C4: every language that has a tree in the store is the default or the
\* selected language.
C4_StoreHoldsLanguagesInUse ==
    Loaded(resources) \subseteq {defaultLanguage, selectedLanguage}

\* C5: setDefaultLanguage(L) sets defaultLanguage and selectedLanguage to L
\* and issues exactly one load for L; no other operation changes
\* defaultLanguage.
C5_DefaultSetOnlyBySetDefaultLanguage ==
    [][ /\ lastOp'.name = "setDefaultLanguage" =>
            /\ defaultLanguage' = lastOp'.language
            /\ selectedLanguage' = lastOp'.language
            /\ Len(issued') = 1
            /\ issued'[1].language = lastOp'.language
        /\ lastOp'.name # "setDefaultLanguage" =>
            defaultLanguage' = defaultLanguage ]_vars

\* setDefaultLanguage has just redefined a default that differed from it,
\* with a tree in the store.
C5_Witness ==
    /\ lastOp.name = "setDefaultLanguage"
    /\ lastOp.id = 3
    /\ defaultLanguage = lastOp.language
    /\ selectedLanguage = lastOp.language
    /\ Len(issued) = 1
    /\ issued[1].language = lastOp.language
    /\ Loaded(resources) \ {lastOp.language} # {}

FailedStaysFailed ==
    \A id \in failed :
        /\ invoked[id] = 0
        /\ \A i \in 1..Len(timeouts) : timeouts[i].id # id
        /\ \A req \in loads : req.id # id

\* C8: when the loader reports failure for a load, the store is unchanged,
\* the callback of the load is never invoked, one error naming the resource
\* address is logged, and no load is issued again.
C8_LoadFailure ==
    [][ /\ lastOp'.name = "loadFailed" =>
            /\ resources' = resources
            /\ timeouts' = timeouts
            /\ invoked' = invoked
            /\ issued' = <<>>
            /\ loads' \subseteq loads
            /\ Cardinality(loads') = Cardinality(loads) - 1
            /\ Len(log') = 1
            /\ log'[1].level = "error"
            /\ log'[1].message[2] = ResourceFile(lastOp'.language)
        /\ FailedStaysFailed' ]_vars

\* The load of a call that passed a callback has just failed, while another
\* callback has already run.
C8_Witness ==
    /\ lastOp.name = "loadFailed"
    /\ lastOp.callback
    /\ lastOp.id \in failed
    /\ invoked[lastOp.id] = 0
    /\ lastOp.language \notin Loaded(resources)
    /\ \E id \in 1..calls : invoked[id] = 1

\* C9: the callback passed to setDefaultLanguage or setLanguage does not run
\* during the call, also when the loader answers from inside the call and
\* when no load is needed: it is queued for a later turn; and the loader
\* receives the request after the eviction and the assignments.
C9_CallbackDeferred ==
    [][ IsCall(lastOp') =>
            /\ invoked' = Append(invoked, 0)
            /\ (/\ lastOp'.callback
                /\ lastOp'.id \notin failed'
                /\ \A req \in loads' : req.id # lastOp'.id) =>
                   timeouts' = Append(timeouts, [id |-> lastOp'.id,
                                                 language |-> lastOp'.language])
            /\ \A k \in 1..Len(issued') :
                /\ issued'[k].selectedLanguage = lastOp'.language
                /\ lastOp'.name = "setDefaultLanguage" =>
                       issued'[k].defaultLanguage = lastOp'.language
                /\ (/\ lastOp'.name = "setLanguage"
                    /\ selectedLanguage # defaultLanguage) =>
                       selectedLanguage \notin issued'[k].loaded ]_vars

\* setLanguage got its content from inside the call: the tree is stored and
\* the callback is queued, not run.
C9_Witness ==
    /\ lastOp.name = "setLanguage"
    /\ Len(issued) = 1
    /\ lastOp.language \in Loaded(resources)
    /\ \A req \in loads : req.id # lastOp.id
    /\ timeouts # <<>>
    /\ timeouts[Len(timeouts)].id = lastOp.id
    /\ invoked[lastOp.id] = 0

\* getTerm(key) has just run without language argument, with a default D and
\* a different selection S both loaded, for a key absent from S's tree and
\* present in D's.
FallbackCase ==
    /\ lastOp.name = "getTerm"
    /\ lastOp.language = NoLanguage
    /\ lastOp.term.kind = "string"
    /\ defaultLanguage # selectedLanguage
    /\ {defaultLanguage, selectedLanguage} \subseteq Loaded(resources)
    /\ Addressed(selectedLanguage, lastOp.term) = Undefined
    /\ Addressed(defaultLanguage, lastOp.term) # Undefined

\* C2 as stated: in that case getTerm returns D's value and logs exactly
\* one warning.
C2_FallbackWarnsOnce ==
    FallbackCase =>
        /\ translation = Addressed(defaultLanguage, lastOp.term)
        /\ Len(log) = 1
        /\ log[1].level = "warn"

\* C2 as amended: in that case getTerm returns D's value and logs nothing,
\* except that for an empty string in D's tree it logs one warning naming D.
C2_FallbackSilent ==
    FallbackCase =>
        /\ translation = Addressed(defaultLanguage, lastOp.term)
        /\ log = IF Truthy(translation)
                 THEN <<>>
                 ELSE <<NotFound(defaultLanguage, lastOp.term)>>

\* The fallback returned a string of the default's tree.
C2_Witness ==
    /\ FallbackCase
    /\ translation = Str(<<"N">>)
    /\ log = <<>>

\* C3: after setDefaultLanguage(A) alone, its load done, getTerm(key) without
\* language argument returns the string leaf the key addresses in A's tree.
C3_DefaultLeaf ==
    (/\ lastOp.name = "getTerm"
     /\ lastOp.language = NoLanguage
     /\ lastOp.term.kind = "string"
     /\ calls = 1
     /\ defaultLanguage \in Loaded(resources)
     /\ Addressed(defaultLanguage, lastOp.term).kind = "string") =>
        translation = Addressed(defaultLanguage, lastOp.term)

\* A nested key was resolved in the only language configured.
C3_Witness ==
    /\ lastOp.name = "getTerm"
    /\ lastOp.language = NoLanguage
    /\ lastOp.term = Str(<<"u", ".", "n">>)
    /\ calls = 1
    /\ defaultLanguage \in Loaded(resources)
    /\ translation = Str(<<"N">>)

\* The language getTerm looked the key up in first.
Effective == IF lastOp.language = NoLanguage THEN selectedLanguage ELSE lastOp.language

\* getTerm has just run for a non-empty key and an effective language E, and
\* the key is absent from (or no tree is loaded for) both E and the default.
MissCase ==
    /\ lastOp.name = "getTerm"
    /\ Truthy(lastOp.term)
    /\ Effective # NoLanguage
    /\ Addressed(Effective, lastOp.term) = Undefined
    /\ Addressed(defaultLanguage, lastOp.term) = Undefined

-----------------------------------------------------------------------------
(* Placeholder substitution                                                *)

\* str with its first occurrence of token replaced by text, taken as it is
ReplaceFirst(str, token, text) ==
    LET position == IndexOf(str, token)
    IN IF position = 0 THEN str
       ELSE SubSeq(str, 1, position - 1) \o text
            \o SubSeq(str, position + Len(token), Len(str))

\* passes i, i + 1, ... over str, pass i for the token {i} and the i-th argument
RECURSIVE Passes(_, _, _)
Passes(str, args, i) ==
    IF i >= Len(args) THEN str
    ELSE Passes(ReplaceFirst(str, Token(i), args[i + 1]), args, i + 1)

\* what the lookup of the call lastOp' describes yields in the current state
ResolvedNow == Resolved(Service, lastOp'.term, lastOp'.language).translation

SubstitutionCase ==
    /\ lastOp'.name = "getTerm"
    /\ Truthy(lastOp'.term)
    /\ Len(lastOp'.args) >= 1
    /\ ResolvedNow.kind = "string"
    /\ ResolvedNow.chars # <<>>

\* C11: when the lookup yields a string and n >= 1 substitution arguments
\* are given, getTerm returns the string after n passes in order, pass i
\* replacing only the first occurrence of {i} by the i-th argument as it is;
\* tokens without argument stay and arguments without token are ignored.
C11_Substitution ==
    [][SubstitutionCase =>
        translation' = Str(Passes(ResolvedNow.chars, lastOp'.args, 0))]_vars

-----------------------------------------------------------------------------
(* Invalid calls of getTerm                                                *)

\* the call lastOp' describes has an empty or absent key
MissingTermKey ==
    /\ lastOp'.name = "getTerm"
    /\ lastOp'.term \in {Undefined, Str(<<>>)}

\* it has a key, but no language argument and no selected language
NoLanguageConfigured ==
    /\ lastOp'.name = "getTerm"
    /\ lastOp'.term \notin {Undefined, Str(<<>>)}
    /\ lastOp'.language = NoLanguage
    /\ selectedLanguage = NoLanguage

\* C12: getTerm with an empty or absent key, or with a key but neither a
\* language argument nor a selected language, returns null, writes exactly
\* one log entry (a warning for the key, an error for the language) and
\* consults no tree.
C12_InvalidCall ==
    [][/\ MissingTermKey =>
            /\ translation' = Null
            /\ Len(log') = 1 /\ log'[1].level = "warn"
            /\ tried' = <<>>
       /\ NoLanguageConfigured =>
            /\ translation' = Null
            /\ Len(log') = 1 /\ log'[1].level = "error"
            /\ tried' = <<>>]_vars

\* getTerm("u.n") before any language is set has returned null with an error.
C12_Witness ==
    /\ lastOp.name = "getTerm"
    /\ lastOp.term = Str(<<"u", ".", "n">>)
    /\ lastOp.language = NoLanguage
    /\ selectedLanguage = NoLanguage
    /\ translation = Null
    /\ Len(log) = 1 /\ log[1].level = "error"
    /\ tried = <<>>

\* C13: getTerm never throws: for every key (one that ends at an interior
\* node of the tree included), every language argument and every list of
\* substitution arguments it returns a string or null.
C13_NoFault ==
    lastOp.name = "getTerm" => translation.kind \in {"string", "null"}

\* C20: getTerm only reads: on every path, with or without a language
\* argument, it leaves defaultLanguage, selectedLanguage and the store as
\* they are, issues no load and defers nothing.
C20_GetTermReadOnly ==
    [][lastOp'.name = "getTerm" =>
        /\ defaultLanguage' = defaultLanguage
        /\ selectedLanguage' = selectedLanguage
        /\ resources' = resources
        /\ loads' = loads
        /\ issued' = <<>>
        /\ timeouts' = timeouts]_vars

\* getTerm was called with a language that is neither selected nor default
\* nor loaded: it fell back to the default, and that language is still not
\* selected, not loaded and not being loaded.
C20_Witness ==
    /\ lastOp.name = "getTerm"
    /\ lastOp.language \notin {NoLanguage, selectedLanguage, defaultLanguage}
    /\ lastOp.language \notin Loaded(resources)
    /\ \A req \in loads : req.language # lastOp.language
    /\ issued = <<>>
    /\ tried = <<lastOp.language, defaultLanguage>>
    /\ translation = Str(<<"N">>)

-----------------------------------------------------------------------------
(* The states of the resolver                                              *)

Unconfigured == defaultLanguage = NoLanguage /\ selectedLanguage = NoLanguage

DefaultOnly == defaultLanguage # NoLanguage /\ selectedLanguage = defaultLanguage

Diverged ==
    /\ defaultLanguage # NoLanguage
    /\ selectedLanguage # NoLanguage
    /\ selectedLanguage # defaultLanguage

\* C14: the service is always Unconfigured, DefaultOnly or Diverged: no
\* sequence of calls, setLanguage before setDefaultLanguage included, sets
\* selectedLanguage while defaultLanguage is unset.
C14_ResolverState == Unconfigured \/ DefaultOnly \/ Diverged

\* C15: setLanguage(defaultLanguage) called while another language is
\* selected leads to DefaultOnly: afterwards getSelectedLanguage() equals
\* getDefaultLanguage().
C15_BackToDefaultOnly ==
    [][(/\ Diverged
        /\ lastOp'.name = "setLanguage"
        /\ lastOp'.language = defaultLanguage) => DefaultOnly']_vars

\* C16: while defaultLanguage is unset no setLanguage call removes a tree
\* from the store, whatever the selected language and the target are.
C16_NoEvictionWithoutDefault ==
    [][(/\ lastOp'.name = "setLanguage"
        /\ defaultLanguage = NoLanguage) =>
            Loaded(resources) \subseteq Loaded(resources')]_vars

\* C18: no setLanguage call, no getTerm call and no response of the loader
\* removes the tree of the default language: once in the store it stays
\* there until setDefaultLanguage is called again.
C18_DefaultTreeStays ==
    [][(/\ lastOp'.name # "setDefaultLanguage"
        /\ defaultLanguage \in Loaded(resources)) =>
            /\ defaultLanguage' = defaultLanguage
            /\ defaultLanguage \in Loaded(resources')]_vars

\* The third call, a setLanguage, has selected a third language and has
\* removed the tree the second call had loaded; only its own load is
\* outstanding and the default's tree is the one tree in the store.
C18_Witness ==
    /\ lastOp.name = "setLanguage"
    /\ lastOp.id = 3
    /\ Diverged
    /\ selectedLanguage = lastOp.language
    /\ Loaded(resources) = {defaultLanguage}
    /\ \A req \in loads : req.id = 3
    /\ failed = {}
    /\ \E i \in 1..Len(timeouts) :
        /\ timeouts[i].id = 2
        /\ timeouts[i].language \notin {defaultLanguage, selectedLanguage}

-----------------------------------------------------------------------------
(* Callbacks                                                               *)

\* C17: whenever the callback of setDefaultLanguage(L, cb) or
\* setLanguage(L, cb) runs, the tree of L is in the store, also when the
\* call issued no load because L was the default or the selected language.
C17_CallbackSeesTree ==
    lastOp.name = "callback" => lastOp.language \in Loaded(resources)

\* C19: when the loader answers every request with success, once, the
\* callback of every setDefaultLanguage or setLanguage call is eventually
\* run, and never more than once, whatever calls follow.
C19_CallbackOnce ==
    /\ [](\A id \in DOMAIN invoked : invoked[id] <= 1)
    /\ \A id \in 1..MaxLiveCalls :
         (calls >= id) ~> (Len(invoked) >= id /\ invoked[id] = 1)

\* Both callbacks of setDefaultLanguage and of a setLanguage that selected
\* another language have run, once each, the second one last.
C19_Witness ==
    /\ lastOp.name = "callback"
    /\ lastOp.id = 2
    /\ Diverged
    /\ lastOp.language = selectedLanguage
    /\ Len(invoked) >= 2
    /\ invoked[1] = 1
    /\ invoked[2] = 1

====
